---- MODULE Spec2Model ----
(***************************************************************************)
(* Model of shinyutils.argp.LazyHelpFormatter: the help entry of one       *)
(* argparse action, as produced by _format_action and the methods it       *)
(* calls.  Text is a sequence of one-character strings.  A colour-control  *)
(* sequence emitted by crayons is one opaque character ("eM", "eK", "eC",  *)
(* "eD" open a colour, "e0" closes it); "BS" is the backspace "\b", "NL"   *)
(* the line feed and "FFFC" the placeholder U+FFFC.                        *)
(***************************************************************************)
EXTENDS Integers, Sequences, FiniteSets, TLC

(***************************************************************************)
(* Characters with a meaning to the formatter                              *)
(***************************************************************************)
CHOICE_SEP == "/"
DEFAULT_CHOICE_WRAP == <<"[", "]">>
UNICODE_REPL == "FFFC"
BS == "BS"
NL == "NL"
SP == " "
ColorClose == "e0"
ColorCodes == {"eM", "eK", "eC", "eD", ColorClose}

KwDefault == <<"d", "e", "f", "a", "u", "l", "t">>
KwOptional == <<"o", "p", "t", "i", "o", "n", "a", "l">>
KwRequired == <<"r", "e", "q", "u", "i", "r", "e", "d">>

\* the texts the actions of the model are made of
TxtInt == <<"i", "n", "t">>
TxtDest == <<"n", "u">>
OptShort == <<"-", "n">>
OptLong == <<"-", "-", "n", "u">>
TxtFalse == <<"F", "a", "l", "s", "e">>
TxtPath == <<"x", "/", "y">>
HelpPlain == <<"h", "i">>
HelpParen == <<"(">> \o KwDefault \o <<")">>

(***************************************************************************)
(* String helpers (Python str methods)                                     *)
(***************************************************************************)
Spaces(n) == [i \in 1..n |-> SP]

RECURSIVE Join(_, _)
Join(strs, sep) ==
    IF strs = <<>> THEN <<>>
    ELSE IF Len(strs) = 1 THEN strs[1]
    ELSE strs[1] \o sep \o Join(Tail(strs), sep)

RECURSIVE Concat(_)
Concat(strs) == IF strs = <<>> THEN <<>> ELSE strs[1] \o Concat(Tail(strs))

StartsWith(s, p) == Len(p) <= Len(s) /\ SubSeq(s, 1, Len(p)) = p

EndsWith(s, p) == Len(p) <= Len(s) /\ SubSeq(s, Len(s) - Len(p) + 1, Len(s)) = p

\* s[(from-1):] of Python, for a 1-based from
Drop(s, from) == SubSeq(s, from, Len(s))

ReplaceChar(s, a, b) == [i \in 1..Len(s) |-> IF s[i] = a THEN b ELSE s[i]]

MatchAt(s, p, w) == p + Len(w) - 1 <= Len(s) /\ SubSeq(s, p, p + Len(w) - 1) = w

\* str.strip("\n")
RECURSIVE StripNL(_)
StripNL(s) ==
    IF s = <<>> THEN s
    ELSE IF s[1] = NL THEN StripNL(Tail(s))
    ELSE IF s[Len(s)] = NL THEN StripNL(SubSeq(s, 1, Len(s) - 1))
    ELSE s

StripColors(s) == SelectSeq(s, LAMBDA c : c \notin ColorCodes)

Max(a, b) == IF a >= b THEN a ELSE b

(***************************************************************************)
(* Colours.  crayons is a library outside the repository: str() of what it *)
(* returns is the text between an opening and a closing control sequence   *)
(* when colours are enabled (en), and the bare text otherwise.             *)
(***************************************************************************)
color_helper(s, color, en) == IF en THEN <<color>> \o s \o <<ColorClose>> ELSE s

COLOR_KEYWORD(s, en) == color_helper(s, "eK", en)

COLOR_CHOICE(s, en) == color_helper(s, "eC", en)

COLOR_DEFAULT(s, en) == color_helper(s, "eD", en)

COLOR_METAVAR(s, en) == color_helper(s, "eM", en)

DUMMY_CMV(en) == COLOR_METAVAR(<<>>, en)

HELP_WIDTH(basew, en) == basew + Len(DUMMY_CMV(en))

(***************************************************************************)
(* An action (argparse.Action) is a record                                 *)
(*   option_strings : sequence of texts, empty for a positional            *)
(*   dest           : text                                                 *)
(*   nargs          : 0 for a switch, 1 for an argument taking a value     *)
(*   type           : text, the __name__ of the conversion function        *)
(*   choices        : sequence of texts, empty when there are none         *)
(*   default        : DNone, DSuppress or DVal(text)                       *)
(*   required       : BOOLEAN                                              *)
(*   help           : text, empty when there is none                       *)
(***************************************************************************)
DNone == [k |-> "None", s |-> <<>>]
DSuppress == [k |-> "SUPPRESS", s |-> <<>>]
DVal(s) == [k |-> "val", s |-> s]

\* _get_default_metavar_for_optional / _for_positional: the type's __name__
get_default_metavar(a) == a.type

\* color_wrapper of _metavar_formatter: one coloured metavar, choices left out
metavar_formatter(a, en) == COLOR_METAVAR(get_default_metavar(a), en)

\* a variant of format_action_invocation that repeats the metavar after every
\* option string, as HelpFormatter does
format_action_invocation_split(a, en) ==
    LET opts == IF a.option_strings = <<>> THEN <<a.dest>> ELSE a.option_strings
    IN  IF a.nargs = 0 THEN Join(opts, <<",", SP>>)
        ELSE Join([i \in 1..Len(opts) |-> opts[i] \o <<SP>> \o metavar_formatter(a, en)],
                  <<",", SP>>)

format_action_invocation(a, en) ==
    IF a.option_strings # <<>> /\ a.nargs # 0
    THEN \* -s/--long ARGS
         Join(a.option_strings, <<CHOICE_SEP>>) \o <<SP>> \o metavar_formatter(a, en)
    ELSE LET opts == IF a.option_strings = <<>> THEN <<a.dest>> ELSE a.option_strings
         IN  IF a.nargs = 0 THEN Join(opts, <<",", SP>>)
             ELSE Join([i \in 1..Len(opts) |->
                           opts[i] \o <<SP>> \o metavar_formatter(a, en)], <<",", SP>>)

\* HelpFormatter state while the entries of a section are formatted
current_indent == 2
indent_increment == 2

\* HelpFormatter.add_argument: the longest invocation seen so far
add_argument(a, en, max_length) ==
    Max(max_length, Len(format_action_invocation(a, en)) + current_indent)

\* HelpFormatter._format_action for an action whose help is "\b"
super_format_action(a, en, action_max_length) ==
    LET help_position == action_max_length + 2
        action_width == help_position - current_indent - 2
        header == format_action_invocation(a, en)
    IN  IF Len(header) <= action_width
        THEN Spaces(current_indent) \o header \o Spaces(action_width - Len(header))
                 \o Spaces(2) \o <<BS, NL>>
        ELSE Spaces(current_indent) \o header \o <<NL>>
                 \o Spaces(help_position) \o <<BS, NL>>

(***************************************************************************)
(* Extra help text: choices, default, required                             *)
(***************************************************************************)
\* action.choices.index(action.default); 0 stands for Python's -1
def_pos_in_choices(a) ==
    IF a.default.k = "val" /\ \E i \in 1..Len(a.choices) : a.choices[i] = a.default.s
    THEN CHOOSE i \in 1..Len(a.choices) :
             /\ a.choices[i] = a.default.s
             /\ \A j \in 1..(i - 1) : a.choices[j] # a.default.s
    ELSE 0

choice_strs(a) ==
    [i \in 1..Len(a.choices) |->
        LET c == ReplaceChar(a.choices[i], CHOICE_SEP, UNICODE_REPL)
        IN  IF i = def_pos_in_choices(a)
            THEN <<DEFAULT_CHOICE_WRAP[1]>> \o c \o <<DEFAULT_CHOICE_WRAP[2]>>
            ELSE c]

\* a variant of hext that tests "required" after "default is None"
hext_optional_first(a) ==
    IF a.choices # <<>>
    THEN LET set == <<"{">> \o Join(choice_strs(a), <<CHOICE_SEP>>) \o <<"}">>
         IN  IF a.required /\ a.option_strings # <<>>
             THEN <<"(">> \o set \o <<SP>> \o KwRequired \o <<")">>
             ELSE IF def_pos_in_choices(a) = 0 /\ a.option_strings # <<>>
             THEN <<"(">> \o set \o <<SP>> \o KwOptional \o <<")">>
             ELSE <<"(">> \o set \o <<")">>
    ELSE IF a.option_strings = <<>> THEN <<>>
    ELSE IF a.default.k = "None" THEN <<"(">> \o KwOptional \o <<")">>
    ELSE IF a.required THEN <<"(">> \o KwRequired \o <<")">>
    ELSE IF a.default.k # "SUPPRESS"
    THEN <<"(">> \o KwDefault \o <<":", SP>> \o a.default.s \o <<")">>
    ELSE <<>>

\* a variant of hext that tests "not action.default" instead of "is None"
hext_falsy_optional(a) ==
    IF a.choices # <<>>
    THEN LET set == <<"{">> \o Join(choice_strs(a), <<CHOICE_SEP>>) \o <<"}">>
         IN  IF a.required /\ a.option_strings # <<>>
             THEN <<"(">> \o set \o <<SP>> \o KwRequired \o <<")">>
             ELSE IF def_pos_in_choices(a) = 0 /\ a.option_strings # <<>>
             THEN <<"(">> \o set \o <<SP>> \o KwOptional \o <<")">>
             ELSE <<"(">> \o set \o <<")">>
    ELSE IF a.option_strings = <<>> THEN <<>>
    ELSE IF a.required THEN <<"(">> \o KwRequired \o <<")">>
    ELSE IF a.default.k = "None" \/ a.default = DVal(TxtFalse)
    THEN <<"(">> \o KwOptional \o <<")">>
    ELSE IF a.default.k # "SUPPRESS"
    THEN <<"(">> \o KwDefault \o <<":", SP>> \o a.default.s \o <<")">>
    ELSE <<>>

\* the empty text stands for hext = None
hext(a) ==
    IF a.choices # <<>>
    THEN LET set == <<"{">> \o Join(choice_strs(a), <<CHOICE_SEP>>) \o <<"}">>
         IN  IF a.required /\ a.option_strings # <<>>
             THEN <<"(">> \o set \o <<SP>> \o KwRequired \o <<")">>
             ELSE IF def_pos_in_choices(a) = 0 /\ a.option_strings # <<>>
             THEN <<"(">> \o set \o <<SP>> \o KwOptional \o <<")">>
             ELSE <<"(">> \o set \o <<")">>
    ELSE IF a.option_strings = <<>> THEN <<>>
    ELSE IF a.required THEN <<"(">> \o KwRequired \o <<")">>
    ELSE IF a.default.k = "None" THEN <<"(">> \o KwOptional \o <<")">>
    ELSE IF a.default.k # "SUPPRESS"
    THEN <<"(">> \o KwDefault \o <<":", SP>> \o a.default.s \o <<")">>
    ELSE <<>>

\* combine base_fmt with help_ and hext
compose(base_fmt, help_, a) ==
    StripNL(base_fmt)
        \o (IF help_ # <<>> THEN <<SP>> \o help_ ELSE <<>>)
        \o (IF hext(a) # <<>>
            THEN (IF help_ # <<>> \/ a.nargs # 0 THEN <<SP>> ELSE <<>>) \o hext(a)
            ELSE <<>>)

subsequent_indent(base_fmt, en) ==
    COLOR_METAVAR(<<BS, BS>>, en)
        \o Spaces(Max(0, Len(StripNL(base_fmt)) - Len(DUMMY_CMV(en)) - 1 + indent_increment))

(***************************************************************************)
(* textwrap.fill(text, width, subsequent_indent): white space is turned    *)
(* into spaces, the text is cut into chunks (runs of spaces, runs of other *)
(* characters) and the chunks are laid out line by line.  The texts of the *)
(* model hold no hyphen after a letter, so wordsep_re cuts at no hyphen.    *)
(***************************************************************************)
munge_whitespace(text) == ReplaceChar(text, NL, SP)

IsBlank(chunk) == \A i \in 1..Len(chunk) : chunk[i] = SP

RunEnd(s, i) ==
    CHOOSE j \in i..Len(s) :
        /\ \A k \in i..j : (s[k] = SP) = (s[i] = SP)
        /\ (j = Len(s) \/ (s[j + 1] = SP) # (s[i] = SP))

RECURSIVE split_from(_, _)
split_from(s, i) ==
    IF i > Len(s) THEN <<>>
    ELSE <<SubSeq(s, i, RunEnd(s, i))>> \o split_from(s, RunEnd(s, i) + 1)

RECURSIVE SumLen(_)
SumLen(chunks) == IF chunks = <<>> THEN 0 ELSE Len(chunks[1]) + SumLen(Tail(chunks))

\* how many leading chunks fit in width
Fitting(chunks, width) ==
    CHOOSE n \in 0..Len(chunks) :
        /\ (n = 0 \/ SumLen(SubSeq(chunks, 1, n)) <= width)
        /\ (n = Len(chunks) \/ SumLen(SubSeq(chunks, 1, n + 1)) > width)

\* _handle_long_word: how much of a chunk too long for any line goes on this
\* line: space_left characters, or fewer to end at its last hyphen that
\* follows some other character
long_word_cut(chunk, space_left) ==
    LET hyphens == {h \in 2..space_left :
                       chunk[h] = "-" /\ \E j \in 1..(h - 1) : chunk[j] # "-"}
    IN  IF Len(chunk) > space_left /\ hyphens # {}
        THEN CHOOSE h \in hyphens : \A g \in hyphens : g <= h
        ELSE space_left

\* lines_empty: no line has been produced yet
RECURSIVE wrap_chunks(_, _, _, _)
wrap_chunks(chunks, total_width, indent, lines_empty) ==
    IF chunks = <<>> THEN <<>>
    ELSE
    LET ind == IF lines_empty THEN <<>> ELSE indent
        width == total_width - Len(ind)
        \* a line other than the first does not start with white space
        ch == IF IsBlank(chunks[1]) /\ ~lines_empty THEN Tail(chunks) ELSE chunks
        n == Fitting(ch, width)
        taken == SubSeq(ch, 1, n)
        rest == Drop(ch, n + 1)
        cur_len == SumLen(taken)
        \* the next chunk fits on no line: cut it
        long == rest # <<>> /\ Len(rest[1]) > width
        space_left == IF width < 1 THEN 1 ELSE width - cur_len
        end == long_word_cut(rest[1], space_left)
        cur_line == IF long THEN Append(taken, SubSeq(rest[1], 1, end)) ELSE taken
        rest2 == IF long THEN <<Drop(rest[1], end + 1)>> \o Tail(rest) ELSE rest
        \* a line does not end with white space
        kept == IF cur_line # <<>> /\ IsBlank(cur_line[Len(cur_line)])
                THEN SubSeq(cur_line, 1, Len(cur_line) - 1) ELSE cur_line
    IN  (IF kept # <<>> THEN <<ind \o Concat(kept)>> ELSE <<>>)
            \o wrap_chunks(rest2, total_width, indent, lines_empty /\ kept = <<>>)

textwrap_fill(text, width, indent) ==
    Join(wrap_chunks(split_from(munge_whitespace(text), 1), width, indent, TRUE), <<NL>>)

(***************************************************************************)
(* re.sub scans the text from left to right.  No match of the patterns     *)
(* below holds a line feed after its first character, and only             *)
(* _PATTERN_CHOICE looks one character behind and one ahead of a match, so *)
(* the scan is done segment by segment, a segment being a line feed (but   *)
(* for the first segment) and the characters up to the next line feed.     *)
(***************************************************************************)
SegmentEnd(s, p) ==
    IF \E i \in (p + 1)..Len(s) : s[i] = NL
    THEN (CHOOSE i \in (p + 1)..Len(s) :
              s[i] = NL /\ \A j \in (p + 1)..(i - 1) : s[j] # NL) - 1
    ELSE Len(s)

\* the segments of s from position p on, as pairs <<first, last>>
RECURSIVE segments_from(_, _)
segments_from(s, p) ==
    IF p > Len(s) THEN <<>>
    ELSE <<<<p, SegmentEnd(s, p)>>>> \o segments_from(s, SegmentEnd(s, p) + 1)

(***************************************************************************)
(* The regular expressions                                                 *)
(***************************************************************************)
\* _PATTERN_HEXT  \(.*?\)$  with DOTALL: where the match starts, 0 for no match
PATTERN_HEXT_search(fmt) ==
    IF fmt # <<>> /\ fmt[Len(fmt)] = ")" /\ \E i \in 1..(Len(fmt) - 1) : fmt[i] = "("
    THEN CHOOSE i \in 1..(Len(fmt) - 1) :
             fmt[i] = "(" /\ \A j \in 1..(i - 1) : fmt[j] # "("
    ELSE 0

DefaultColon == KwDefault \o <<":", SP>>

\* _PATTERN_DEFAULT  (?<=default: ).+?(?=\))  tried at p: the index of the
\* closing parenthesis, 0 for no match
PATTERN_DEFAULT_match(s, p) ==
    IF /\ p > Len(DefaultColon)
       /\ SubSeq(s, p - Len(DefaultColon), p - 1) = DefaultColon
       /\ \E q \in (p + 1)..Len(s) : s[q] = ")"
    THEN LET q == CHOOSE q \in (p + 1)..Len(s) :
                      s[q] = ")" /\ \A j \in (p + 1)..(q - 1) : s[j] # ")"
         IN  IF \E j \in p..(q - 1) : s[j] = NL THEN 0 ELSE q
    ELSE 0

RECURSIVE sub_default_from(_, _, _)
sub_default_from(s, p, en) ==
    IF p > Len(s) THEN <<>>
    ELSE LET q == PATTERN_DEFAULT_match(s, p)
         IN  IF q # 0
             THEN COLOR_DEFAULT(SubSeq(s, p, q - 1), en) \o sub_default_from(s, q, en)
             ELSE <<s[p]>> \o sub_default_from(s, p + 1, en)

\* _PATTERN_KEYWORD  default|optional|required  tried at p: the length matched
PATTERN_KEYWORD_match(s, p) ==
    IF MatchAt(s, p, KwDefault) THEN Len(KwDefault)
    ELSE IF MatchAt(s, p, KwOptional) THEN Len(KwOptional)
    ELSE IF MatchAt(s, p, KwRequired) THEN Len(KwRequired)
    ELSE 0

RECURSIVE sub_keyword_from(_, _, _)
sub_keyword_from(s, p, en) ==
    IF p > Len(s) THEN <<>>
    ELSE LET n == PATTERN_KEYWORD_match(s, p)
         IN  IF n # 0
             THEN COLOR_KEYWORD(SubSeq(s, p, p + n - 1), en) \o sub_keyword_from(s, p + n, en)
             ELSE <<s[p]>> \o sub_keyword_from(s, p + 1, en)

\* _PATTERN_CHOICE  (?<=\{|/| )[^/\b]+?(?=\}|/|\n)  tried at p: the index of
\* the character after the match, 0 for no match
PATTERN_CHOICE_match(s, p) ==
    IF /\ p > 1
       /\ s[p - 1] \in {"{", CHOICE_SEP, SP}
       /\ s[p] \notin {CHOICE_SEP, BS}
       /\ \E q \in (p + 1)..Len(s) : s[q] \in {"}", CHOICE_SEP, NL}
    THEN LET q == CHOOSE q \in (p + 1)..Len(s) :
                      /\ s[q] \in {"}", CHOICE_SEP, NL}
                      /\ \A j \in (p + 1)..(q - 1) : s[j] \notin {"}", CHOICE_SEP, NL}
         IN  IF \E j \in p..(q - 1) : s[j] = BS THEN 0 ELSE q
    ELSE 0

(***************************************************************************)
(* _sub_choice: the replacement of one match m of _PATTERN_CHOICE.  The    *)
(* result is [err, s]: err is "" or the name of the exception raised.      *)
(***************************************************************************)
\* the body of _sub_choice once def_pos_in_choices and choice_strs are read:
\* has_def is def_pos_in_choices != -1, def_str is choice_strs[def_pos_in_choices]
sub_choice_default(m, has_def, def_str, en) ==
    LET starts == has_def /\ StartsWith(def_str, m)
        pref == IF starts THEN <<m[1]>> ELSE <<>>
        c1 == IF starts THEN Tail(m) ELSE m
        ends == has_def /\ EndsWith(def_str, c1)
    IN  IF ends /\ c1 = <<>>
        THEN [err |-> "IndexError", s |-> <<>>]
        ELSE LET suff == IF ends THEN <<c1[Len(c1)]>> ELSE <<>>
                 c2 == IF ends THEN SubSeq(c1, 1, Len(c1) - 1) ELSE c1
                 sub == IF pref # <<>> \/ suff # <<>>
                        THEN COLOR_DEFAULT(c2, en) ELSE COLOR_CHOICE(c2, en)
             IN  [err |-> "", s |-> pref \o sub \o suff]

sub_choice(m, a, en) ==
    IF a.choices = <<>>
    THEN \* choice_strs and def_pos_in_choices were never bound
         [err |-> "NameError", s |-> <<>>]
    ELSE sub_choice_default(m, def_pos_in_choices(a) # 0,
                            IF def_pos_in_choices(a) # 0
                            THEN choice_strs(a)[def_pos_in_choices(a)] ELSE <<>>, en)

\* r then t: the exception of r, else the exception of t, else both texts
Then(r, t) ==
    IF r.err # "" THEN r
    ELSE IF t.err # "" THEN t
    ELSE [err |-> "", s |-> r.s \o t.s]

Returned(s) == [err |-> "", s |-> s]

\* the first exception among the results rs, else their texts in order
FirstRaised(rs) ==
    IF \E i \in 1..Len(rs) : rs[i].err # ""
    THEN rs[CHOOSE i \in 1..Len(rs) : rs[i].err # "" /\ \A j \in 1..(i - 1) : rs[j].err = ""]
    ELSE Returned(Concat([i \in 1..Len(rs) |-> rs[i].s]))

\* the scan of positions p..last of s; s[last + 1], if any, is only looked at
RECURSIVE sub_choices_from(_, _, _, _, _)
sub_choices_from(s, p, last, a, en) ==
    IF p > last THEN Returned(<<>>)
    ELSE LET q == PATTERN_CHOICE_match(s, p)
         IN  IF q # 0
             THEN Then(sub_choice(SubSeq(s, p, q - 1), a, en),
                       sub_choices_from(s, q, last, a, en))
             ELSE Then(Returned(<<s[p]>>), sub_choices_from(s, p + 1, last, a, en))

\* re.sub(_PATTERN_DEFAULT, _COLOR_DEFAULT, s)
re_sub_default(s, en) ==
    LET segs == segments_from(s, 1)
    IN  Concat([i \in 1..Len(segs) |->
                   sub_default_from(SubSeq(s, segs[i][1], segs[i][2]), 1, en)])

\* re.sub(_PATTERN_KEYWORD, _COLOR_KEYWORD, s)
re_sub_keyword(s, en) ==
    LET segs == segments_from(s, 1)
    IN  Concat([i \in 1..Len(segs) |->
                   sub_keyword_from(SubSeq(s, segs[i][1], segs[i][2]), 1, en)])

\* re.sub(_PATTERN_CHOICE, _sub_choice, s): the first exception raised, if any
re_sub_choice(s, a, en) ==
    LET segs == segments_from(s, 1)
        \* a segment with the character before it and the one after it
        ctx(i) == SubSeq(s, Max(1, segs[i][1] - 1), IF segs[i][2] < Len(s) THEN segs[i][2] + 1
                                                     ELSE Len(s))
        first(i) == IF segs[i][1] = 1 THEN 1 ELSE 2
    IN  FirstRaised([i \in 1..Len(segs) |->
                        sub_choices_from(ctx(i), first(i),
                                         first(i) + segs[i][2] - segs[i][1], a, en)])

\* add colors to hext inside the formatted text
colorize(fmt, a, en) ==
    LET i == PATTERN_HEXT_search(fmt)
    IN  IF i = 0 THEN Returned(fmt)
        ELSE LET fmt_hext == Drop(fmt, i)
                 d == re_sub_default(fmt_hext, en)
                 k == re_sub_keyword(d, en)
                 c == re_sub_choice(k, a, en)
             IN  Then(Returned(SubSeq(fmt, 1, i - 1)),
                      [c EXCEPT !.s = ReplaceChar(@, UNICODE_REPL, CHOICE_SEP)])

(***************************************************************************)
(* _format_action.  a is the action as the call finds it; the result is    *)
(* [err, s] and the action as the call leaves it is action_after(a, en).   *)
(***************************************************************************)
\* hack to fix length of option strings (line 62), then action.help = "\b"
action_after(a, en) ==
    [a EXCEPT !.option_strings =
                  IF a.nargs = 0 /\ a.option_strings # <<>>
                  THEN [a.option_strings EXCEPT ![1] = @ \o DUMMY_CMV(en)]
                  ELSE @,
              !.help = <<BS>>]

wrapped(a, basew, en, action_max_length) ==
    LET b == action_after(a, en)
        base_fmt == super_format_action(b, en, action_max_length)
    IN  textwrap_fill(compose(base_fmt, a.help, b), HELP_WIDTH(basew, en),
                      subsequent_indent(base_fmt, en))

format_action(a, basew, en, action_max_length) ==
    Then(colorize(wrapped(a, basew, en, action_max_length), action_after(a, en), en),
         Returned(<<NL>>))

(***************************************************************************)
(* The state: one action of a parser, the terminal and the help entries    *)
(* produced so far.  Every format_help() builds a new formatter, adds the  *)
(* parser's actions to it (add_argument) and formats them.                 *)
(***************************************************************************)
VARIABLES
    spec,        \* the action as the parser declared it
    action,      \* the action as it is now
    basew,       \* shutil.get_terminal_size()[0]
    color,       \* whether crayons emits colour-control sequences
    others_max,  \* longest invocation (plus indent) among the parser's other actions
    outs         \* results of the _format_action calls so far, oldest first

vars == <<spec, action, basew, color, others_max, outs>>

MaxCalls == 2

OptionStringSets == {<<>>, <<OptShort>>, <<OptShort, OptLong>>}
ChoiceLists == {<<>>, <<TxtPath, <<"a">>>>, <<<<"a", "]">>, <<"a">>>>}
Defaults == {DNone, DSuppress, DVal(<<"a">>), DVal(TxtFalse), DVal(TxtPath), DVal(KwDefault)}
Helps == {<<>>, HelpPlain, HelpParen}
Widths == {8, 24, 60}
OthersMax == {0, 20}

Actions ==
    {a \in [option_strings : OptionStringSets, dest : {TxtDest}, nargs : {0, 1},
            type : {TxtInt}, choices : ChoiceLists, default : Defaults,
            required : BOOLEAN, help : Helps] :
        a.option_strings = <<>> => a.nargs = 1}

Init ==
    /\ spec \in Actions
    /\ action = spec
    /\ basew \in Widths
    /\ color \in BOOLEAN
    /\ others_max \in OthersMax
    /\ outs = <<>>

\* one format_help() of the parser, followed for this action
Render ==
    /\ Len(outs) < MaxCalls
    /\ outs' = Append(outs, format_action(action, basew, color,
                                          add_argument(action, color, others_max)))
    /\ action' = action_after(action, color)
    /\ UNCHANGED <<spec, basew, color, others_max>>

Next == Render

Spec == Init /\ [][Next]_vars

(***************************************************************************)
(* Properties                                                              *)
(***************************************************************************)
Ok(i) == outs[i].err = ""

\* the entry fits on one line: its only line feed is the last character
SingleLine(s) == \A i \in 1..(Len(s) - 1) : s[i] # NL

Contains(s, w) == \E p \in 1..(Len(s) - Len(w) + 1) : MatchAt(s, p, w)

InSeq(x, seq) == \E i \in 1..Len(seq) : seq[i] = x

\* the help text the i-th call finds in the action
HelpAt(i) == IF i = 1 THEN spec.help ELSE action.help

IsOptional(a) == a.option_strings # <<>>

DefaultAmongChoices(a) == a.default.k = "val" /\ InSeq(a.default.s, a.choices)

\* {c1/.../cn} in declaration order, the default element bracketed
ExpectedSet(a) ==
    <<"{">>
        \o Join([i \in 1..Len(a.choices) |->
                    IF a.default.k = "val" /\ a.choices[i] = a.default.s
                    THEN <<"[">> \o a.choices[i] \o <<"]">>
                    ELSE a.choices[i]], <<"/">>)
        \o <<"}">>

ExpectedAnnotation(a) ==
    IF a.choices # <<>>
    THEN IF IsOptional(a) /\ a.required
         THEN <<"(">> \o ExpectedSet(a) \o <<SP>> \o KwRequired \o <<")">>
         ELSE IF IsOptional(a) /\ ~DefaultAmongChoices(a)
         THEN <<"(">> \o ExpectedSet(a) \o <<SP>> \o KwOptional \o <<")">>
         ELSE <<"(">> \o ExpectedSet(a) \o <<")">>
    ELSE IF ~IsOptional(a) THEN <<>>
    ELSE IF a.required THEN <<"(">> \o KwRequired \o <<")">>
    ELSE IF a.default.k = "None" THEN <<"(">> \o KwOptional \o <<")">>
    ELSE IF a.default.k = "val"
    THEN <<"(">> \o KwDefault \o <<":", SP>> \o a.default.s \o <<")">>
    ELSE <<>>

\* what follows the padded invocation label: help text, then the annotation
ExpectedTail(a, help_) ==
    (IF help_ # <<>> THEN <<SP>> \o help_ ELSE <<>>)
        \o (IF ExpectedAnnotation(a) = <<>> THEN <<>>
            ELSE (IF help_ # <<>> \/ a.nargs # 0 THEN <<SP>> ELSE <<>>)
                     \o ExpectedAnnotation(a))

\* C1: render keeps no state: after any sequence of calls the fields of the
\* spec (option strings, help text, choices, default) are what they were
\* before the first call, and all calls returned the same string.
C1_RenderIsPure ==
    /\ action.option_strings = spec.option_strings
    /\ action.help = spec.help
    /\ action.choices = spec.choices
    /\ action.default = spec.default
    /\ \A i, j \in 1..Len(outs) : outs[i] = outs[j]

\* C2: the annotation is the one outcome the precedence gives (choices, then
\* positional, then required, then no default, then default value, then
\* nothing): as synthesized, and as the text that ends a one-line entry
\* after the help text.
C2_AnnotationPrecedence ==
    /\ ReplaceChar(hext(action), UNICODE_REPL, CHOICE_SEP) = ExpectedAnnotation(spec)
    /\ \A i \in 1..Len(outs) :
           Ok(i) /\ SingleLine(outs[i].s)
               => EndsWith(StripColors(outs[i].s),
                           <<BS>> \o ExpectedTail(spec, HelpAt(i)) \o <<NL>>)

C2_Witness ==
    /\ Len(outs) >= 1 /\ Ok(1) /\ SingleLine(outs[1].s)
    /\ spec.choices # <<>> /\ DefaultAmongChoices(spec)
    /\ IsOptional(spec) /\ spec.required /\ spec.help # <<>>

\* the choice set with each choice coloured Choice but the default, which is
\* bracketed with its inner text coloured Default
ExpectedColoredSet(a) ==
    <<"{">>
        \o Join([i \in 1..Len(a.choices) |->
                    IF a.choices[i] = a.default.s
                    THEN <<"[", "eD">> \o a.choices[i] \o <<ColorClose, "]">>
                    ELSE <<"eC">> \o a.choices[i] \o <<ColorClose>>], <<"/">>)
        \o <<"}">>

\* C3: when the default is one of the choices, the rendered choice set marks
\* exactly the token of that value (bracketed, coloured Default) and colours
\* every other token Choice; stated here for entries that fit on one line.
C3_DefaultMarked ==
    \A i \in 1..Len(outs) :
        color /\ Ok(i) /\ DefaultAmongChoices(spec) /\ SingleLine(outs[i].s)
            => Contains(outs[i].s, ExpectedColoredSet(spec))

\* characters that take a column: not colour-control sequences, not backspaces
VisibleLen(line) == Len(SelectSeq(line, LAMBDA c : c \notin ColorCodes \cup {BS, NL}))

\* C4: no line of a rendered entry has more visible characters than the
\* width of the terminal.
C4_WidthInvariant ==
    \A i \in 1..Len(outs) :
        Ok(i) =>
            LET segs == segments_from(outs[i].s, 1)
            IN  \A k \in 1..Len(segs) :
                    VisibleLen(SubSeq(outs[i].s, segs[k][1], segs[k][2])) <= basew

\* the other actions' longest invocation when no colour-control sequences are
\* emitted: each invocation holds one coloured metavar
PlainOthersMax == IF others_max = 0 THEN 0 ELSE others_max - Len(DUMMY_CMV(TRUE))

\* C5: the coloured rendering of the spec with its colour-control sequences
\* removed is the uncoloured rendering of the same spec.
C5_ColorStripping ==
    color /\ Len(outs) >= 1 /\ Ok(1)
        => StripColors(outs[1].s)
               = format_action(spec, basew, FALSE,
                               add_argument(spec, FALSE, PlainOthersMax)).s

ValueOption(a) == a.option_strings # <<>> /\ a.nargs # 0

ExpectedLabel(a, placeholder) ==
    Join(a.option_strings, <<"/">>) \o <<SP>> \o placeholder

UpperChar(c) ==
    CASE c = "i" -> "I" [] c = "n" -> "N" [] c = "t" -> "T" [] OTHER -> c

Upper(s) == [i \in 1..Len(s) |-> UpperChar(s[i])]

\* C6, as amended: the label of an optional argument that takes a value is
\* its option strings joined by "/" followed by one placeholder, and the
\* placeholder is the type's name as it is, not uppercased.
C6_LabelTypeName ==
    ValueOption(spec) =>
        /\ StripColors(format_action_invocation(action, color))
               = ExpectedLabel(spec, spec.type)
        /\ \A i \in 1..Len(outs) :
               Ok(i) /\ SingleLine(outs[i].s)
                   => StartsWith(StripColors(outs[i].s),
                                 Spaces(current_indent)
                                     \o ExpectedLabel(spec, spec.type) \o <<SP>>)

C6_Witness ==
    /\ Len(outs) >= 1 /\ Ok(1) /\ SingleLine(outs[1].s)
    /\ ValueOption(spec) /\ Len(spec.option_strings) = 2

\* C6, as claimed: the placeholder is the uppercased type name.
C6_LabelUppercased ==
    ValueOption(spec) =>
        \A i \in 1..Len(outs) :
            Ok(i) /\ SingleLine(outs[i].s)
                => StartsWith(StripColors(outs[i].s),
                              Spaces(current_indent)
                                  \o ExpectedLabel(spec, Upper(spec.type)) \o <<SP>>)

FalseSwitch(a) ==
    /\ a.nargs = 0 /\ a.option_strings # <<>> /\ a.choices = <<>>
    /\ ~a.required /\ a.default = DVal(TxtFalse)

\* C7, as amended: a switch without choices that is not required and whose
\* default is False is annotated (default: False).
C7_SwitchDefaultFalse ==
    FalseSwitch(spec) =>
        /\ hext(action) = <<"(">> \o KwDefault \o <<":", SP>> \o TxtFalse \o <<")">>
        /\ \A i \in 1..Len(outs) :
               Ok(i) /\ SingleLine(outs[i].s)
                   => EndsWith(StripColors(outs[i].s),
                               <<"(">> \o KwDefault \o <<":", SP>> \o TxtFalse
                                   \o <<")", NL>>)

C7_Witness ==
    FalseSwitch(spec) /\ Len(outs) >= 1 /\ Ok(1) /\ SingleLine(outs[1].s)

\* C7, as claimed: such a switch is annotated (optional).
C7_SwitchOptional ==
    FalseSwitch(spec) =>
        \A i \in 1..Len(outs) :
            Ok(i) /\ SingleLine(outs[i].s)
                => EndsWith(StripColors(outs[i].s),
                            <<"(">> \o KwOptional \o <<")", NL>>)

DefaultedOption(a) ==
    /\ a.option_strings # <<>> /\ ~a.required
    /\ a.choices = <<>> /\ a.default.k = "val"

\* C8: render returns normally for an optional, not required argument without
\* choices that has a default, and a one-line entry holds (default: <value>).
C8_RenderReturns ==
    DefaultedOption(spec) =>
        \A i \in 1..Len(outs) :
            /\ Ok(i)
            /\ SingleLine(outs[i].s)
                   => Contains(StripColors(outs[i].s),
                               <<"(">> \o KwDefault \o <<":", SP>> \o spec.default.s
                                   \o <<")">>)

\* C9: colouring touches the annotation only: in a one-line entry, the text
\* before the annotation (label and help) is what it was before colouring.
C9_OnlyAnnotationColored ==
    color /\ Len(outs) >= 1 /\ Ok(1) /\ SingleLine(outs[1].s)
        => LET w == wrapped(spec, basew, color, add_argument(spec, color, others_max))
               n == Len(w) - Len(hext(spec))
           IN  SubSeq(outs[1].s, 1, n) = SubSeq(w, 1, n)

\* C10: in (default: <value>) the word default is coloured Keyword and the
\* value, up to the closing parenthesis, is coloured Default and holds no
\* other colour; stated here for entries that fit on one line.
C10_DefaultValueSpan ==
    \A i \in 1..Len(outs) :
        color /\ Ok(i) /\ SingleLine(outs[i].s) /\ DefaultedOption(spec)
            => EndsWith(outs[i].s,
                        <<"(", "eK">> \o KwDefault \o <<ColorClose, ":", SP, "eD">>
                            \o spec.default.s \o <<ColorClose, ")", NL>>)

====
